---- MODULE Spec2Model ----
(***************************************************************************)
(* The progression part of the vibe-triolingo backend: the Express route   *)
(* handlers for lesson completion, the streak check, enroll / unenroll and *)
(* the profile update, run against one shared relational store.            *)
(*                                                                         *)
(* A handler is an async function: every `await prisma...` is one database *)
(* operation.  One action of this model is one such operation together     *)
(* with the synchronous code that follows it up to the next await (or the  *)
(* response).  Handlers of different requests interleave at the awaits.    *)
(* Any database operation may throw; the handler's catch block then        *)
(* answers 500 and undoes nothing.                                         *)
(***************************************************************************)
EXTENDS Integers, Sequences, FiniteSets, Bags, TLC

(***************************************************************************)
(* Bounds of the model.                                                    *)
(***************************************************************************)
\* Requests started in one behaviour.
MaxRequests == 2
\* Clock ticks (of half a day) in one behaviour of the streak specification.
MaxTicks == 5

\* Request slots: at most two handlers are in flight at a time.
Slots == {1, 2}

(***************************************************************************)
(* Stored data that no handler changes: users' identities, languages,      *)
(* lessons and exercises.                                                  *)
(***************************************************************************)
Users == {"u1", "u2"}

\* Languages with isActive = true; "xx" is an id with no active language.
Languages == {"es", "fr"}
LanguageIds == Languages \cup {"xx"}

LessonIds == {"l1", "l2", "l3", "l4"}
\* Lesson ids a request may name: "l0" is the id of no lesson.
RequestedLessonIds == LessonIds \cup {"l0"}

\* l1, l3 and l4 are seeded Spanish lessons (l3 deactivated, l4 left with no
\* active exercise); l2 is a French lesson with l1's title.
Lesson ==
  [l \in LessonIds |->
     CASE l = "l1" -> [languageId |-> "es", title |-> "Basic Greetings", isActive |-> TRUE]
       [] l = "l2" -> [languageId |-> "fr", title |-> "Basic Greetings", isActive |-> TRUE]
       [] l = "l3" -> [languageId |-> "es", title |-> "Numbers 1-20", isActive |-> FALSE]
       [] l = "l4" -> [languageId |-> "es", title |-> "Food and Drinks", isActive |-> TRUE]]

Exercises ==
  << [lessonId |-> "l1", points |-> 10, isActive |-> TRUE],
     [lessonId |-> "l1", points |-> 10, isActive |-> TRUE],
     [lessonId |-> "l1", points |-> 15, isActive |-> TRUE],
     [lessonId |-> "l1", points |-> 15, isActive |-> TRUE],
     [lessonId |-> "l2", points |-> 10, isActive |-> TRUE],
     [lessonId |-> "l2", points |-> 10, isActive |-> TRUE],
     [lessonId |-> "l2", points |-> 15, isActive |-> FALSE],
     [lessonId |-> "l3", points |-> 10, isActive |-> TRUE],
     [lessonId |-> "l4", points |-> 10, isActive |-> FALSE] >>

(***************************************************************************)
(* Time, in milliseconds as Date.getTime() gives it.                       *)
(***************************************************************************)
MS_PER_DAY == 1000 * 60 * 60 * 24
HALF_DAY == MS_PER_DAY \div 2
\* The clock at the start of a behaviour.
T0 == 2 * MS_PER_DAY
\* user.lastLogin of a user who never logged in (null).
NoLogin == -1

(***************************************************************************)
(* Request bodies of POST /lessons/:id/complete.  The handler validates    *)
(* neither score nor timeSpent.                                            *)
(***************************************************************************)
Bodies ==
  { [score |-> -5, timeSpent |-> 10],
    [score |-> 25, timeSpent |-> 20],
    [score |-> 60, timeSpent |-> 30] }

\* firstName values of PUT /users/profile; "" fails isLength({min: 1}).
FirstNames == {"", "Ada"}

VARIABLES
  users,         \* User rows: experience, level, streak, lastLogin, firstName
  enrollments,   \* Enrollment rows, unique per (userId, languageId)
  progress,      \* Progress rows, unique per (userId, lessonId)
  achievements,  \* Achievement rows: a bag of [userId, type, title]
  now,           \* what new Date() returns
  pc,            \* per slot: the await the handler is suspended at
  req,           \* per slot: the request (route, req.user.id, params, body)
  loc,           \* per slot: the handler's local variables
  resp,          \* per slot: the response sent
  started,       \* requests started so far
  initialUsers   \* the User rows as created (history variable)

vars == << users, enrollments, progress, achievements, now, pc, req, loc,
           resp, started, initialUsers >>

db == << users, enrollments, progress, achievements >>

(***************************************************************************)
(* The arithmetic of the completion handler.                               *)
(***************************************************************************)
RECURSIVE SumPoints(_, _)
\* exercises.reduce((sum, ex) => sum + ex.points, 0) over the active
\* exercises of the lesson
SumPoints(lessonId, i) ==
  IF i > Len(Exercises) THEN 0
  ELSE (IF Exercises[i].lessonId = lessonId /\ Exercises[i].isActive
          THEN Exercises[i].points ELSE 0) + SumPoints(lessonId, i + 1)

TotalPoints(lessonId) == SumPoints(lessonId, 1)

\* A faulty clamp: the reported score is stored as it is.
FinalScoreNoClamp(score, totalPoints) == score

\* Math.min(score, totalPoints)
FinalScore(score, totalPoints) ==
  IF score < totalPoints THEN score ELSE totalPoints

\* A faulty gain: Math.round in place of Math.floor.
ExperienceGainedRounded(finalScore) == (finalScore + 5) \div 10

\* Math.floor(finalScore / 10)
ExperienceGained(finalScore) == finalScore \div 10

\* A faulty level: bands of 100 counted from level 0.
NewLevelNoOffset(newExperience) == newExperience \div 100

\* Math.floor(newExperience / 100) + 1
NewLevel(newExperience) == (newExperience \div 100) + 1

LevelUpTitle(newLevel) == "Level " \o ToString(newLevel) \o "!"

\* A faulty title: it names the lesson by its id.
PerfectTitleOfLesson(lessonId) == "Perfect Score in " \o lessonId

PerfectTitle(lessonId) == "Perfect Score in " \o Lesson[lessonId].title

(***************************************************************************)
(* Default values of the per-slot records.                                 *)
(***************************************************************************)
NoReq ==
  [kind |-> "none", userId |-> "u1", lessonId |-> "l1", languageId |-> "es",
   score |-> 0, timeSpent |-> 0, firstName |-> "", token |-> "none"]

NoLoc ==
  [totalPoints |-> 0, finalScore |-> 0, experienceGained |-> 0,
   experience |-> 0, level |-> 0, newLevel |-> 0, streak |-> 0,
   totalLessons |-> 0, completedLessons |-> 0, perfectScores |-> 0]

NoResp ==
  [status |-> 0, error |-> "", score |-> 0, experienceGained |-> 0,
   newLevel |-> 0, streak |-> 0, lastLogin |-> NoLogin, at |-> 0,
   availableAchievements |-> << >>, enrollments |-> {}, overview |-> {},
   stats |-> [totalLessons |-> 0, completedLessons |-> 0,
              completionRate |-> [num |-> 0, den |-> 1]]]

NoRow ==
  [exists |-> FALSE, score |-> 0, timeSpent |-> 0, completed |-> FALSE,
   completedAt |-> 0, enrollmentId |-> "es"]

NoEnrollment ==
  [exists |-> FALSE, isActive |-> FALSE, level |-> 0, startedAt |-> 0]

(***************************************************************************)
(* The state after seeding, registration and enrolment: users are created  *)
(* with level 1, experience 0, streak 0 and no lastLogin; u1 is enrolled   *)
(* in Spanish and u2 in French.  u1's row is also taken as 19 full         *)
(* completions of l1 and three daily logins, the last two days ago, leave  *)
(* it.                                                                     *)
(***************************************************************************)
NewUser ==
  [experience |-> 0, level |-> 1, streak |-> 0, lastLogin |-> NoLogin, firstName |-> "Demo"]

InitUserRows ==
  { NewUser,
    [NewUser EXCEPT !.experience = 95, !.streak = 3, !.lastLogin = T0 - 2 * MS_PER_DAY] }

InitDb ==
  /\ initialUsers = users
  /\ enrollments =
       [u \in Users |-> [g \in Languages |->
          IF (u = "u1" /\ g = "es") \/ (u = "u2" /\ g = "fr")
            THEN [exists |-> TRUE, isActive |-> TRUE, level |-> 1, startedAt |-> 0]
            ELSE NoEnrollment]]
  /\ progress = [u \in Users |-> [l \in LessonIds |-> NoRow]]
  /\ achievements = EmptyBag
  /\ now = T0
  /\ pc = [r \in Slots |-> "idle"]
  /\ req = [r \in Slots |-> NoReq]
  /\ loc = [r \in Slots |-> NoLoc]
  /\ resp = [r \in Slots |-> NoResp]
  /\ started = 0

Init ==
  /\ \E row \in InitUserRows : users = [u \in Users |-> IF u = "u1" THEN row ELSE NewUser]
  /\ InitDb

(***************************************************************************)
(* Starting and answering requests.                                        *)
(***************************************************************************)
Free(r) == pc[r] \in {"idle", "done"}

\* A new request takes a free slot.
CanStart(r) ==
  /\ started < MaxRequests
  /\ Free(r)

Begin(r, request, at) ==
  /\ CanStart(r)
  /\ started' = started + 1
  /\ req' = [req EXCEPT ![r] = request]
  /\ loc' = [loc EXCEPT ![r] = NoLoc]
  /\ resp' = [resp EXCEPT ![r] = NoResp]
  /\ pc' = [pc EXCEPT ![r] = at]

\* res.status(..).json(..): the handler ends.  The response carries the time
\* it was sent at; of the request only the route and the user stay on record.
Respond(r, response) ==
  /\ resp' = [resp EXCEPT ![r] = [response EXCEPT !.at = now]]
  /\ pc' = [pc EXCEPT ![r] = "done"]
  /\ loc' = [loc EXCEPT ![r] = NoLoc]
  /\ req' = [req EXCEPT ![r] = [NoReq EXCEPT !.kind = req[r].kind,
                                             !.userId = req[r].userId]]

Goto(r, at, locals) ==
  /\ pc' = [pc EXCEPT ![r] = at]
  /\ loc' = [loc EXCEPT ![r] = locals]
  /\ resp' = resp
  /\ req' = req

\* An awaited database operation rejects: the catch block answers 500.
Throw(r) ==
  /\ ~Free(r)
  /\ Respond(r, [NoResp EXCEPT !.status = 500, !.error = "Internal"])
  /\ UNCHANGED << db, now, started, initialUsers >>

(***************************************************************************)
(* POST /lessons/:id/complete                                              *)
(***************************************************************************)
StartComplete(r, u, l, b) ==
  /\ Begin(r, [NoReq EXCEPT !.kind = "complete", !.userId = u, !.lessonId = l,
                            !.score = b.score, !.timeSpent = b.timeSpent],
           "findLesson")
  /\ UNCHANGED << db, now, initialUsers >>

\* A faulty lookup: the isActive filter is left out.
FindAnyLesson(lessonId) == lessonId \in LessonIds

\* prisma.lesson.findUnique({ where: { id, isActive: true } })
FindLesson(lessonId) == lessonId \in LessonIds /\ Lesson[lessonId].isActive

CompleteFindLesson(r) ==
  /\ pc[r] = "findLesson"
  /\ IF ~FindLesson(req[r].lessonId)
       THEN Respond(r, [NoResp EXCEPT !.status = 404, !.error = "Lesson not found"])
       ELSE Goto(r, "findEnrollment", loc[r])
  /\ UNCHANGED << db, now, started, initialUsers >>

\* A faulty lookup: the isActive filter is left out.
FindAnyEnrollment(u, g) == enrollments[u][g].exists

\* prisma.enrollment.findFirst({ where: { userId, languageId, isActive: true } })
FindActiveEnrollment(u, g) ==
  enrollments[u][g].exists /\ enrollments[u][g].isActive

CompleteFindEnrollment(r) ==
  /\ pc[r] = "findEnrollment"
  /\ IF ~FindActiveEnrollment(req[r].userId, Lesson[req[r].lessonId].languageId)
       THEN Respond(r, [NoResp EXCEPT !.status = 403,
                                      !.error = "Not enrolled in this language"])
       ELSE Goto(r, "findExercises", loc[r])
  /\ UNCHANGED << db, now, started, initialUsers >>

CompleteFindExercises(r) ==
  /\ pc[r] = "findExercises"
  /\ LET totalPoints == TotalPoints(req[r].lessonId)
         finalScore == FinalScore(req[r].score, totalPoints)
     IN Goto(r, "upsertProgress",
             [loc[r] EXCEPT !.totalPoints = totalPoints, !.finalScore = finalScore])
  /\ UNCHANGED << db, now, started, initialUsers >>

\* A faulty upsert: a row is completed only with a score above 0.
UpsertProgressUnfinished(u, l, finalScore, timeSpent) ==
  [progress EXCEPT ![u][l] =
     [exists |-> TRUE, score |-> finalScore, timeSpent |-> timeSpent,
      completed |-> (finalScore > 0), completedAt |-> now,
      enrollmentId |-> IF progress[u][l].exists THEN progress[u][l].enrollmentId
                                                ELSE Lesson[l].languageId]]

\* A faulty upsert: the update of an existing row leaves its timeSpent.
UpsertProgressKeepTime(u, l, finalScore, timeSpent) ==
  [progress EXCEPT ![u][l] =
     IF progress[u][l].exists
       THEN [@ EXCEPT !.score = finalScore, !.completed = TRUE, !.completedAt = now]
       ELSE [exists |-> TRUE, score |-> finalScore, timeSpent |-> timeSpent,
             completed |-> TRUE, completedAt |-> now,
             enrollmentId |-> Lesson[l].languageId]]

\* prisma.progress.upsert on the (userId, lessonId) key
UpsertProgress(u, l, finalScore, timeSpent) ==
  [progress EXCEPT ![u][l] =
     IF progress[u][l].exists
       THEN [@ EXCEPT !.score = finalScore, !.timeSpent = timeSpent,
                      !.completed = TRUE, !.completedAt = now]
       ELSE [exists |-> TRUE, score |-> finalScore, timeSpent |-> timeSpent,
             completed |-> TRUE, completedAt |-> now,
             enrollmentId |-> Lesson[l].languageId]]

CompleteUpsertProgress(r) ==
  /\ pc[r] = "upsertProgress"
  /\ progress' = UpsertProgress(req[r].userId, req[r].lessonId,
                                loc[r].finalScore, req[r].timeSpent)
  /\ Goto(r, "findUser",
          [loc[r] EXCEPT !.experienceGained = ExperienceGained(loc[r].finalScore)])
  /\ UNCHANGED << users, enrollments, achievements, now, started, initialUsers >>

\* prisma.user.findUnique({ select: { experience, level } })
CompleteFindUser(r) ==
  /\ pc[r] = "findUser"
  /\ LET user == users[req[r].userId]
         newExperience == user.experience + loc[r].experienceGained
     IN Goto(r, "updateUser",
             [loc[r] EXCEPT !.experience = user.experience, !.level = user.level,
                            !.newLevel = NewLevel(newExperience)])
  /\ UNCHANGED << db, now, started, initialUsers >>

\* The response of a completed lesson.
Completed(r) ==
  [NoResp EXCEPT !.status = 200, !.score = loc[r].finalScore,
                 !.experienceGained = loc[r].experienceGained,
                 !.newLevel = NewLevel(loc[r].experience + loc[r].experienceGained)]

\* A faulty continuation: the response is sent with the perfect-score check
\* skipped.
AfterLevelUpRespond(r) == Respond(r, Completed(r))

\* if (finalScore === totalPoints): look the achievement up, else respond
AfterLevelUp(r) ==
  IF loc[r].finalScore = loc[r].totalPoints
    THEN Goto(r, "findPerfect", loc[r])
    ELSE Respond(r, Completed(r))

\* A faulty test: an unchanged level counts as a level-up.
LeveledUpOrSame(newLevel, level) == newLevel >= level

\* if (newLevel > user.level)
LeveledUp(newLevel, level) == newLevel > level

\* prisma.user.update({ data: { experience: newExperience, level: newLevel } })
CompleteUpdateUser(r) ==
  /\ pc[r] = "updateUser"
  /\ users' = [users EXCEPT ![req[r].userId] =
                 [@ EXCEPT !.experience = loc[r].experience + loc[r].experienceGained,
                           !.level = loc[r].newLevel]]
  /\ IF LeveledUp(loc[r].newLevel, loc[r].level)
       THEN Goto(r, "createLevelUp", loc[r])
       ELSE AfterLevelUp(r)
  /\ UNCHANGED << enrollments, progress, achievements, now, started, initialUsers >>

\* prisma.achievement.create: a plain insert
CreateAchievement(u, type, title) ==
  achievements (+) SetToBag({[userId |-> u, type |-> type, title |-> title]})

CompleteCreateLevelUp(r) ==
  /\ pc[r] = "createLevelUp"
  /\ achievements' = CreateAchievement(req[r].userId, "level_up",
                                       LevelUpTitle(loc[r].newLevel))
  /\ AfterLevelUp(r)
  /\ UNCHANGED << users, enrollments, progress, now, started, initialUsers >>

\* prisma.achievement.findFirst({ where: { userId, type, title } })
FindAchievement(u, type, title) ==
  BagIn([userId |-> u, type |-> type, title |-> title], achievements)

CompleteFindPerfect(r) ==
  /\ pc[r] = "findPerfect"
  /\ IF ~FindAchievement(req[r].userId, "perfect_score", PerfectTitle(req[r].lessonId))
       THEN Goto(r, "createPerfect", loc[r])
       ELSE Respond(r, Completed(r))
  /\ UNCHANGED << db, now, started, initialUsers >>

CompleteCreatePerfect(r) ==
  /\ pc[r] = "createPerfect"
  /\ achievements' = CreateAchievement(req[r].userId, "perfect_score",
                                       PerfectTitle(req[r].lessonId))
  /\ Respond(r, Completed(r))
  /\ UNCHANGED << users, enrollments, progress, now, started, initialUsers >>

(***************************************************************************)
(* GET /users/streak                                                       *)
(***************************************************************************)
StartStreak(r, u) ==
  /\ Begin(r, [NoReq EXCEPT !.kind = "streak", !.userId = u], "streakFindUser")
  /\ UNCHANGED << db, now, initialUsers >>

\* Math.floor((today.getTime() - lastLogin.getTime()) / (1000 * 60 * 60 * 24))
DaysSinceLastLogin(today, lastLogin) == (today - lastLogin) \div MS_PER_DAY

\* The response of the streak check: the handler's user.streak and the
\* lastLogin it read.
StreakResponse(streak, lastLogin) ==
  [NoResp EXCEPT !.status = 200, !.streak = streak, !.lastLogin = lastLogin]

\* prisma.user.findUnique({ select: { streak, lastLogin } }), then the
\* branch on daysSinceLastLogin.
StreakFindUser(r) ==
  /\ pc[r] = "streakFindUser"
  /\ LET user == users[req[r].userId]
         today == now
         locals == [loc[r] EXCEPT !.streak = user.streak]
     IN IF user.lastLogin # NoLogin
          THEN LET daysSinceLastLogin == DaysSinceLastLogin(today, user.lastLogin)
               IN CASE daysSinceLastLogin = 1 -> Goto(r, "streakIncrement", locals)
                    [] daysSinceLastLogin > 1 -> Goto(r, "streakReset", locals)
                    [] OTHER -> Respond(r, StreakResponse(user.streak, user.lastLogin))
          ELSE Goto(r, "streakIncrement", locals)
  /\ UNCHANGED << db, now, started, initialUsers >>

\* prisma.user.update({ data: { streak: 0 } }); user.streak = 0
StreakReset(r) ==
  /\ pc[r] = "streakReset"
  /\ users' = [users EXCEPT ![req[r].userId].streak = 0]
  /\ Respond(r, StreakResponse(0, users[req[r].userId].lastLogin))
  /\ UNCHANGED << enrollments, progress, achievements, now, started, initialUsers >>

\* newStreak = user.streak + 1; prisma.user.update({ data: { streak: newStreak } })
StreakIncrement(r) ==
  /\ pc[r] = "streakIncrement"
  /\ LET newStreak == loc[r].streak + 1
     IN /\ users' = [users EXCEPT ![req[r].userId].streak = newStreak]
        /\ Respond(r, StreakResponse(newStreak, users[req[r].userId].lastLogin))
  /\ UNCHANGED << enrollments, progress, achievements, now, started, initialUsers >>

(***************************************************************************)
(* POST /languages/:id/enroll and DELETE /languages/:id/enroll             *)
(***************************************************************************)
StartEnroll(r, u, g) ==
  /\ Begin(r, [NoReq EXCEPT !.kind = "enroll", !.userId = u, !.languageId = g],
           "enrollFindLanguage")
  /\ UNCHANGED << db, now, initialUsers >>

EnrollFindLanguage(r) ==
  /\ pc[r] = "enrollFindLanguage"
  /\ IF req[r].languageId \notin Languages
       THEN Respond(r, [NoResp EXCEPT !.status = 404, !.error = "Language not found"])
       ELSE Goto(r, "enrollFindExisting", loc[r])
  /\ UNCHANGED << db, now, started, initialUsers >>

\* A faulty test: no existing enrollment counts as active.
AlreadyEnrolledNever(existingEnrollment) == FALSE

\* if (existingEnrollment.isActive)
AlreadyEnrolled(existingEnrollment) == existingEnrollment.isActive

\* prisma.enrollment.findUnique on the (userId, languageId) key
EnrollFindExisting(r) ==
  /\ pc[r] = "enrollFindExisting"
  /\ LET existingEnrollment == enrollments[req[r].userId][req[r].languageId]
     IN IF existingEnrollment.exists
          THEN IF AlreadyEnrolled(existingEnrollment)
                 THEN Respond(r, [NoResp EXCEPT !.status = 400,
                                    !.error = "Already enrolled in this language"])
                 ELSE Goto(r, "enrollReactivate", loc[r])
          ELSE Goto(r, "enrollCreate", loc[r])
  /\ UNCHANGED << db, now, started, initialUsers >>

\* A faulty reactivation: startedAt is left as it was.
ReactivatedKeepStart(row) == [row EXCEPT !.isActive = TRUE]

\* data: { isActive: true, startedAt: new Date() }
Reactivated(row) == [row EXCEPT !.isActive = TRUE, !.startedAt = now]

\* prisma.enrollment.update({ data: { isActive: true, startedAt: new Date() } })
EnrollReactivate(r) ==
  /\ pc[r] = "enrollReactivate"
  /\ enrollments' = [enrollments EXCEPT ![req[r].userId][req[r].languageId] =
                       Reactivated(@)]
  /\ Respond(r, [NoResp EXCEPT !.status = 200])
  /\ UNCHANGED << users, progress, achievements, now, started, initialUsers >>

\* prisma.enrollment.create: the unique (userId, languageId) key rejects a
\* second row, and the catch block answers 500.
EnrollCreate(r) ==
  /\ pc[r] = "enrollCreate"
  /\ IF enrollments[req[r].userId][req[r].languageId].exists
       THEN /\ Respond(r, [NoResp EXCEPT !.status = 500, !.error = "Internal"])
            /\ enrollments' = enrollments
       ELSE /\ enrollments' = [enrollments EXCEPT ![req[r].userId][req[r].languageId] =
                                 [exists |-> TRUE, isActive |-> TRUE, level |-> 1,
                                  startedAt |-> now]]
            /\ Respond(r, [NoResp EXCEPT !.status = 201])
  /\ UNCHANGED << users, progress, achievements, now, started, initialUsers >>

StartUnenroll(r, u, g) ==
  /\ Begin(r, [NoReq EXCEPT !.kind = "unenroll", !.userId = u, !.languageId = g],
           "unenrollFind")
  /\ UNCHANGED << db, now, initialUsers >>

UnenrollFind(r) ==
  /\ pc[r] = "unenrollFind"
  /\ IF enrollments[req[r].userId][req[r].languageId].exists
       THEN Goto(r, "unenrollUpdate", loc[r])
       ELSE Respond(r, [NoResp EXCEPT !.status = 404, !.error = "Enrollment not found"])
  /\ UNCHANGED << db, now, started, initialUsers >>

\* prisma.enrollment.update({ data: { isActive: false } })
UnenrollUpdate(r) ==
  /\ pc[r] = "unenrollUpdate"
  /\ enrollments' = [enrollments EXCEPT ![req[r].userId][req[r].languageId].isActive = FALSE]
  /\ Respond(r, [NoResp EXCEPT !.status = 200])
  /\ UNCHANGED << users, progress, achievements, now, started, initialUsers >>

(***************************************************************************)
(* PUT /users/profile                                                      *)
(***************************************************************************)
\* body('firstName').optional().trim().isLength({ min: 1, max: 50 })
ValidFirstName(firstName) == firstName # ""

StartProfile(r, u, firstName) ==
  /\ CanStart(r)
  /\ IF ValidFirstName(firstName)
       THEN Begin(r, [NoReq EXCEPT !.kind = "profile", !.userId = u,
                                   !.firstName = firstName], "profileUpdate")
       ELSE /\ started' = started + 1
            /\ req' = [req EXCEPT ![r] = [NoReq EXCEPT !.kind = "profile", !.userId = u]]
            /\ loc' = [loc EXCEPT ![r] = NoLoc]
            /\ resp' = [resp EXCEPT ![r] = [NoResp EXCEPT !.status = 400,
                                              !.error = "Validation failed",
                                              !.at = now]]
            /\ pc' = [pc EXCEPT ![r] = "done"]
  /\ UNCHANGED << db, now, initialUsers >>

\* prisma.user.update({ data: { firstName, lastName, avatar } })
ProfileUpdate(r) ==
  /\ pc[r] = "profileUpdate"
  /\ users' = [users EXCEPT ![req[r].userId].firstName = req[r].firstName]
  /\ Respond(r, [NoResp EXCEPT !.status = 200])
  /\ UNCHANGED << enrollments, progress, achievements, now, started, initialUsers >>

(***************************************************************************)
(* The clock.                                                              *)
(***************************************************************************)
Tick ==
  /\ now < T0 + MaxTicks * HALF_DAY
  /\ now' = now + HALF_DAY
  /\ UNCHANGED << db, pc, req, loc, resp, started, initialUsers >>

(***************************************************************************)
(* All handlers, interleaved at their awaits, within one instant of the    *)
(* clock.                                                                  *)
(***************************************************************************)
Next ==
  \E r \in Slots :
    \/ \E u \in Users, l \in RequestedLessonIds, b \in Bodies : StartComplete(r, u, l, b)
    \/ CompleteFindLesson(r)
    \/ CompleteFindEnrollment(r)
    \/ CompleteFindExercises(r)
    \/ CompleteUpsertProgress(r)
    \/ CompleteFindUser(r)
    \/ CompleteUpdateUser(r)
    \/ CompleteCreateLevelUp(r)
    \/ CompleteFindPerfect(r)
    \/ CompleteCreatePerfect(r)
    \/ \E u \in Users : StartStreak(r, u)
    \/ StreakFindUser(r)
    \/ StreakReset(r)
    \/ StreakIncrement(r)
    \/ \E u \in Users, g \in LanguageIds : StartEnroll(r, u, g)
    \/ EnrollFindLanguage(r)
    \/ EnrollFindExisting(r)
    \/ EnrollReactivate(r)
    \/ EnrollCreate(r)
    \/ \E u \in Users, g \in Languages : StartUnenroll(r, u, g)
    \/ UnenrollFind(r)
    \/ UnenrollUpdate(r)
    \/ \E u \in Users, f \in FirstNames : StartProfile(r, u, f)
    \/ ProfileUpdate(r)
    \/ Throw(r)

Spec == Init /\ [][Next]_vars

(***************************************************************************)
(* The streak check alone, as the clock advances.                          *)
(***************************************************************************)
NextStreak ==
  \/ Tick
  \/ \E r \in Slots :
       \/ \E u \in Users : StartStreak(r, u)
       \/ StreakFindUser(r)
       \/ StreakReset(r)
       \/ StreakIncrement(r)
       \/ Throw(r)

\* User rows a run of daily logins leaves: streak 3, last login half a day ago.
StreakUserRows ==
  { NewUser,
    [NewUser EXCEPT !.streak = 3, !.lastLogin = T0 - HALF_DAY] }

InitStreak ==
  /\ users \in [Users -> StreakUserRows]
  /\ InitDb

SpecStreak == InitStreak /\ [][NextStreak]_vars

(***************************************************************************)
(* authenticateToken, in front of GET /users/streak.                       *)
(*                                                                         *)
(* A bearer token is missing, not a JWT at all, a JWT signed with another  *)
(* secret, or a JWT signed with JWT_SECRET (which is configured) that      *)
(* carries a userId and an expiry.  Times are all on the model's clock.    *)
(***************************************************************************)
TokenIds ==
  {"none", "malformed", "forged", "live", "short", "loggedOut", "shortSession", "ghost"}

FarFuture == T0 + 20 * MS_PER_DAY

Token ==
  [t \in TokenIds |->
     CASE t = "none" -> [form |-> "missing", userId |-> "u1", exp |-> 0]
       [] t = "malformed" -> [form |-> "malformed", userId |-> "u1", exp |-> 0]
       [] t = "forged" -> [form |-> "forged", userId |-> "u1", exp |-> FarFuture]
       [] t = "live" -> [form |-> "signed", userId |-> "u1", exp |-> FarFuture]
       [] t = "short" -> [form |-> "signed", userId |-> "u2", exp |-> T0 + HALF_DAY]
       [] t = "loggedOut" -> [form |-> "signed", userId |-> "u2", exp |-> FarFuture]
       [] t = "shortSession" -> [form |-> "signed", userId |-> "u2", exp |-> FarFuture]
       [] t = "ghost" -> [form |-> "signed", userId |-> "u0", exp |-> FarFuture]]

\* The session table: "loggedOut" has no row, and the row of "shortSession"
\* expires while its token is still good.
Sessions ==
  { [token |-> "live", userId |-> "u1", expiresAt |-> FarFuture],
    [token |-> "short", userId |-> "u2", expiresAt |-> FarFuture],
    [token |-> "shortSession", userId |-> "u2", expiresAt |-> T0 + HALF_DAY],
    [token |-> "ghost", userId |-> "u0", expiresAt |-> FarFuture] }

AuthPcs == {"authenticateToken", "authFindSession", "authFindUser"}

StartGuardedStreak(r, t) ==
  /\ Begin(r, [NoReq EXCEPT !.kind = "streak", !.token = t], "authenticateToken")
  /\ UNCHANGED << db, now, initialUsers >>

\* jwt.verify(token, secret) of the jsonwebtoken library: the decoded
\* payload, or the name of the error it throws.  The signature is checked
\* before the expiry.
JwtVerify(t, at) ==
  CASE Token[t].form = "malformed" -> "JsonWebTokenError"
    [] Token[t].form = "forged" -> "JsonWebTokenError"
    [] Token[t].form = "signed" /\ at >= Token[t].exp -> "TokenExpiredError"
    [] OTHER -> "decoded"

\* error instanceof jwt.JsonWebTokenError: TokenExpiredError and
\* NotBeforeError are subclasses of JsonWebTokenError in the library.
InstanceOfJsonWebTokenError(error) ==
  error \in {"JsonWebTokenError", "TokenExpiredError", "NotBeforeError"}

\* The catch block of authenticateToken.
AuthCatch(error) ==
  IF InstanceOfJsonWebTokenError(error)
    THEN [NoResp EXCEPT !.status = 403, !.error = "Invalid token"]
    ELSE IF error = "TokenExpiredError"
      THEN [NoResp EXCEPT !.status = 401, !.error = "Token expired"]
      ELSE [NoResp EXCEPT !.status = 500, !.error = "Authentication failed"]

\* The middleware up to its first await.
AuthenticateToken(r) ==
  /\ pc[r] = "authenticateToken"
  /\ IF Token[req[r].token].form = "missing"
       THEN Respond(r, [NoResp EXCEPT !.status = 401, !.error = "Access token required"])
       ELSE LET decoded == JwtVerify(req[r].token, now)
            IN IF decoded # "decoded"
                 THEN Respond(r, AuthCatch(decoded))
                 ELSE Goto(r, "authFindSession", loc[r])
  /\ UNCHANGED << db, now, started, initialUsers >>

\* A faulty lookup: the expiresAt filter is left out.
FindSessionOfAnyAge(t, userId, at) ==
  \E session \in Sessions : session.token = t /\ session.userId = userId

\* prisma.session.findFirst({ where: { token, userId, expiresAt: { gt: new Date() } } })
FindSession(t, userId, at) ==
  \E session \in Sessions :
    session.token = t /\ session.userId = userId /\ session.expiresAt > at

AuthFindSession(r) ==
  /\ pc[r] = "authFindSession"
  /\ IF ~FindSession(req[r].token, Token[req[r].token].userId, now)
       THEN Respond(r, [NoResp EXCEPT !.status = 401, !.error = "Session expired"])
       ELSE Goto(r, "authFindUser", loc[r])
  /\ UNCHANGED << db, now, started, initialUsers >>

\* prisma.user.findUnique; req.user = user; next()
AuthFindUser(r) ==
  /\ pc[r] = "authFindUser"
  /\ IF Token[req[r].token].userId \notin Users
       THEN Respond(r, [NoResp EXCEPT !.status = 401, !.error = "User not found"])
       ELSE /\ pc' = [pc EXCEPT ![r] = "streakFindUser"]
            /\ req' = [req EXCEPT ![r].userId = Token[req[r].token].userId]
            /\ UNCHANGED << loc, resp >>
  /\ UNCHANGED << db, now, started, initialUsers >>

\* An awaited lookup of the middleware rejects: the error is no JWT error.
AuthThrow(r) ==
  /\ pc[r] \in {"authFindSession", "authFindUser"}
  /\ Respond(r, AuthCatch("Error"))
  /\ UNCHANGED << db, now, started, initialUsers >>

NextAuth ==
  \/ Tick
  \/ \E r \in Slots :
       \/ \E t \in TokenIds : StartGuardedStreak(r, t)
       \/ AuthenticateToken(r)
       \/ AuthFindSession(r)
       \/ AuthFindUser(r)
       \/ AuthThrow(r)
       \/ StreakFindUser(r)
       \/ StreakReset(r)
       \/ StreakIncrement(r)
       \/ (pc[r] \notin AuthPcs /\ Throw(r))

InitAuth ==
  /\ users = [u \in Users |-> [NewUser EXCEPT !.streak = 3, !.lastLogin = T0 - HALF_DAY]]
  /\ InitDb

SpecAuth == InitAuth /\ [][NextAuth]_vars

(***************************************************************************)
(* Lesson completions of a user enrolled in both languages: u1, 5          *)
(* experience points short of level 2, has enrolled in French as well.     *)
(***************************************************************************)
NextTwoLanguages ==
  \E r \in Slots :
    \/ \E l \in RequestedLessonIds, b \in Bodies : StartComplete(r, "u1", l, b)
    \/ CompleteFindLesson(r)
    \/ CompleteFindEnrollment(r)
    \/ CompleteFindExercises(r)
    \/ CompleteUpsertProgress(r)
    \/ CompleteFindUser(r)
    \/ CompleteUpdateUser(r)
    \/ CompleteCreateLevelUp(r)
    \/ CompleteFindPerfect(r)
    \/ CompleteCreatePerfect(r)
    \/ Throw(r)

InitTwoLanguages ==
  /\ users = [u \in Users |-> IF u = "u1" THEN [NewUser EXCEPT !.experience = 95]
                                            ELSE NewUser]
  /\ initialUsers = users
  /\ enrollments =
       [u \in Users |-> [g \in Languages |->
          IF u = "u1" \/ g = "fr"
            THEN [exists |-> TRUE, isActive |-> TRUE, level |-> 1, startedAt |-> 0]
            ELSE NoEnrollment]]
  /\ progress = [u \in Users |-> [l \in LessonIds |-> NoRow]]
  /\ achievements = EmptyBag
  /\ now = T0
  /\ pc = [r \in Slots |-> "idle"]
  /\ req = [r \in Slots |-> NoReq]
  /\ loc = [r \in Slots |-> NoLoc]
  /\ resp = [r \in Slots |-> NoResp]
  /\ started = 0

SpecTwoLanguages == InitTwoLanguages /\ [][NextTwoLanguages]_vars

(***************************************************************************)
(* GET /achievements/available: the suggestions computed from the user's   *)
(* level and streak and the counts over the progress rows read.            *)
(***************************************************************************)
streakTargets == << 7, 14, 30, 60, 100 >>
lessonTargets == << 10, 25, 50, 100 >>
perfectScoreTargets == << 5, 10, 20, 50 >>

RECURSIVE FindAtLeastFrom(_, _, _)
FindAtLeastFrom(targets, v, i) ==
  IF i > Len(targets) THEN 0
  ELSE IF targets[i] >= v THEN targets[i] ELSE FindAtLeastFrom(targets, v, i + 1)

\* A faulty search: a target equal to the value is taken.
FindAtLeast(targets, v) == FindAtLeastFrom(targets, v, 1)

RECURSIVE FindFrom(_, _, _)
FindFrom(targets, v, i) ==
  IF i > Len(targets) THEN 0
  ELSE IF targets[i] > v THEN targets[i] ELSE FindFrom(targets, v, i + 1)

\* targets.find(target => target > v): the first such target; 0 stands for
\* undefined, which the tests that follow treat alike.
Find(targets, v) == FindFrom(targets, v, 1)

\* One pushed suggestion; its progressPercentage is (progress / target) * 100.
Suggestion(type, current, target) ==
  [type |-> type, progress |-> current, target |-> target]

AvailableAchievements(level, streak, totalLessons, completedLessons, perfectScores) ==
  LET nextLevel == level + 1
      nextStreakTarget == Find(streakTargets, streak)
      nextLessonTarget == Find(lessonTargets, completedLessons)
      nextPerfectScoreTarget == Find(perfectScoreTargets, perfectScores)
  IN (IF level < 10 THEN << Suggestion("level_up", level, nextLevel) >> ELSE << >>)
     \o (IF nextStreakTarget # 0
           THEN << Suggestion("streak", streak, nextStreakTarget) >> ELSE << >>)
     \o (IF totalLessons > 0 /\ nextLessonTarget # 0
           THEN << Suggestion("lesson_complete", completedLessons, nextLessonTarget) >>
           ELSE << >>)
     \o (IF nextPerfectScoreTarget # 0
           THEN << Suggestion("perfect_score", perfectScores, nextPerfectScoreTarget) >>
           ELSE << >>)

\* The handler after its two lookups: the suggestions are computed from the
\* values read and sent.
AvailableCompute(r) ==
  /\ pc[r] = "availableCompute"
  /\ Respond(r, [NoResp EXCEPT !.status = 200,
                   !.availableAchievements =
                      AvailableAchievements(loc[r].level, loc[r].streak,
                                            loc[r].totalLessons, loc[r].completedLessons,
                                            loc[r].perfectScores)])
  /\ UNCHANGED << db, now, started, initialUsers >>

(***************************************************************************)
(* The reading routes: GET /achievements/available, GET                    *)
(* /languages/enrollments, GET /progress/overview and GET /users/stats.    *)
(* Each reads the user's active enrollments with their progress rows in    *)
(* one findMany.                                                           *)
(***************************************************************************)
\* prisma.enrollment.findMany({ where: { userId, isActive: true } })
ActiveEnrollments(u) ==
  { g \in Languages : enrollments[u][g].exists /\ enrollments[u][g].isActive }

\* include: { progress }: the progress rows of the enrollment
ProgressOf(u, g) ==
  { l \in LessonIds : progress[u][l].exists /\ progress[u][l].enrollmentId = g }

\* enrollment.progress.length
TotalOf(u, g) == Cardinality(ProgressOf(u, g))

\* enrollment.progress.filter(p => p.completed).length
CompletedOf(u, g) == Cardinality({ l \in ProgressOf(u, g) : progress[u][l].completed })

\* enrollment.progress.filter(p => p.completed && p.score >= 90).length
PerfectOf(u, g) ==
  Cardinality({ l \in ProgressOf(u, g) :
                  progress[u][l].completed /\ progress[u][l].score >= 90 })

\* enrollments.reduce((sum, enrollment) => sum + ..., 0)
RECURSIVE SumOf(_, _)
SumOf(count, gs) ==
  IF gs = {} THEN 0
  ELSE LET g == CHOOSE x \in gs : TRUE
       IN count[g] + SumOf(count, gs \ {g})

\* total > 0 ? (completed / total) * 100 : 0, kept as the quotient num / den
Rate(completed, total) ==
  IF total > 0 THEN [num |-> completed * 100, den |-> total]
               ELSE [num |-> 0, den |-> 1]

\* Math.round of a rate that is not negative
Round(rate) == (2 * rate.num + rate.den) \div (2 * rate.den)

StartAvailable(r, u) ==
  /\ Begin(r, [NoReq EXCEPT !.kind = "available", !.userId = u], "availableFindUser")
  /\ UNCHANGED << db, now, initialUsers >>

\* prisma.user.findUnique({ select: { level, experience, streak } })
AvailableFindUser(r) ==
  /\ pc[r] = "availableFindUser"
  /\ Goto(r, "availableFindEnrollments",
          [loc[r] EXCEPT !.level = users[req[r].userId].level,
                         !.streak = users[req[r].userId].streak])
  /\ UNCHANGED << db, now, started, initialUsers >>

AvailableFindEnrollments(r) ==
  /\ pc[r] = "availableFindEnrollments"
  /\ LET u == req[r].userId
         gs == ActiveEnrollments(u)
     IN Goto(r, "availableCompute",
             [loc[r] EXCEPT
                !.totalLessons = SumOf([g \in gs |-> TotalOf(u, g)], gs),
                !.completedLessons = SumOf([g \in gs |-> CompletedOf(u, g)], gs),
                !.perfectScores = SumOf([g \in gs |-> PerfectOf(u, g)], gs)])
  /\ UNCHANGED << db, now, started, initialUsers >>

StartEnrollments(r, u) ==
  /\ Begin(r, [NoReq EXCEPT !.kind = "enrollments", !.userId = u], "enrollmentsFind")
  /\ UNCHANGED << db, now, initialUsers >>

EnrollmentsFind(r) ==
  /\ pc[r] = "enrollmentsFind"
  /\ LET u == req[r].userId
     IN Respond(r, [NoResp EXCEPT !.status = 200,
                      !.enrollments =
                         { [languageId |-> g,
                            totalLessons |-> TotalOf(u, g),
                            completedLessons |-> CompletedOf(u, g),
                            progressPercentage |->
                              Round(Rate(CompletedOf(u, g), TotalOf(u, g)))] :
                           g \in ActiveEnrollments(u) }])
  /\ UNCHANGED << db, now, started, initialUsers >>

StartOverview(r, u) ==
  /\ Begin(r, [NoReq EXCEPT !.kind = "overview", !.userId = u], "overviewFind")
  /\ UNCHANGED << db, now, initialUsers >>

OverviewFind(r) ==
  /\ pc[r] = "overviewFind"
  /\ LET u == req[r].userId
     IN Respond(r, [NoResp EXCEPT !.status = 200,
                      !.overview =
                         { [languageId |-> g,
                            totalLessons |-> TotalOf(u, g),
                            completedLessons |-> CompletedOf(u, g),
                            completionRate |-> Rate(CompletedOf(u, g), TotalOf(u, g))] :
                           g \in ActiveEnrollments(u) }])
  /\ UNCHANGED << db, now, started, initialUsers >>

StartStats(r, u) ==
  /\ Begin(r, [NoReq EXCEPT !.kind = "stats", !.userId = u], "statsFindEnrollments")
  /\ UNCHANGED << db, now, initialUsers >>

StatsFindEnrollments(r) ==
  /\ pc[r] = "statsFindEnrollments"
  /\ LET u == req[r].userId
         gs == ActiveEnrollments(u)
     IN Goto(r, "statsFindAchievements",
             [loc[r] EXCEPT
                !.totalLessons = SumOf([g \in gs |-> TotalOf(u, g)], gs),
                !.completedLessons = SumOf([g \in gs |-> CompletedOf(u, g)], gs)])
  /\ UNCHANGED << db, now, started, initialUsers >>

\* prisma.achievement.findMany, then the stats are put together and sent
StatsFindAchievements(r) ==
  /\ pc[r] = "statsFindAchievements"
  /\ Respond(r, [NoResp EXCEPT !.status = 200,
                   !.stats = [totalLessons |-> loc[r].totalLessons,
                              completedLessons |-> loc[r].completedLessons,
                              completionRate |->
                                Rate(loc[r].completedLessons, loc[r].totalLessons)]])
  /\ UNCHANGED << db, now, started, initialUsers >>

(***************************************************************************)
(* u1's completions, enrollments and readings together.  u1 is new, or has *)
(* completed l1 once, with 25 points in 20 s a day ago, and is then still  *)
(* enrolled in Spanish or has unenrolled.                                  *)
(***************************************************************************)
\* Bodies of the completions: a score far below 0, a part score and a score
\* above every total.
ReportBodies ==
  { [score |-> -1010, timeSpent |-> 10],
    [score |-> 25, timeSpent |-> 20],
    [score |-> 60, timeSpent |-> 30] }

StudiedRow ==
  [exists |-> TRUE, score |-> 25, timeSpent |-> 20, completed |-> TRUE,
   completedAt |-> T0 - MS_PER_DAY, enrollmentId |-> "es"]

InitReports ==
  /\ \E studied, enrolled \in BOOLEAN :
       /\ studied \/ enrolled
       /\ users = [u \in Users |->
                     IF u = "u1" /\ studied THEN [NewUser EXCEPT !.experience = 2]
                                            ELSE NewUser]
       /\ progress = [u \in Users |-> [l \in LessonIds |->
                        IF u = "u1" /\ l = "l1" /\ studied THEN StudiedRow ELSE NoRow]]
       /\ enrollments =
            [u \in Users |-> [g \in Languages |->
               IF (u = "u1" /\ g = "es") \/ (u = "u2" /\ g = "fr")
                 THEN [exists |-> TRUE, isActive |-> (u = "u2" \/ enrolled),
                       level |-> 1, startedAt |-> 0]
                 ELSE NoEnrollment]]
  /\ initialUsers = users
  /\ achievements = EmptyBag
  /\ now = T0
  /\ pc = [r \in Slots |-> "idle"]
  /\ req = [r \in Slots |-> NoReq]
  /\ loc = [r \in Slots |-> NoLoc]
  /\ resp = [r \in Slots |-> NoResp]
  /\ started = 0

NextReports ==
  \E r \in Slots :
    \/ \E l \in LessonIds, b \in ReportBodies : StartComplete(r, "u1", l, b)
    \/ CompleteFindLesson(r)
    \/ CompleteFindEnrollment(r)
    \/ CompleteFindExercises(r)
    \/ CompleteUpsertProgress(r)
    \/ CompleteFindUser(r)
    \/ CompleteUpdateUser(r)
    \/ CompleteCreateLevelUp(r)
    \/ CompleteFindPerfect(r)
    \/ CompleteCreatePerfect(r)
    \/ \E g \in Languages : StartEnroll(r, "u1", g)
    \/ EnrollFindLanguage(r)
    \/ EnrollFindExisting(r)
    \/ EnrollReactivate(r)
    \/ EnrollCreate(r)
    \/ \E g \in Languages : StartUnenroll(r, "u1", g)
    \/ UnenrollFind(r)
    \/ UnenrollUpdate(r)
    \/ StartAvailable(r, "u1")
    \/ AvailableFindUser(r)
    \/ AvailableFindEnrollments(r)
    \/ AvailableCompute(r)
    \/ StartEnrollments(r, "u1")
    \/ EnrollmentsFind(r)
    \/ StartOverview(r, "u1")
    \/ OverviewFind(r)
    \/ StartStats(r, "u1")
    \/ StatsFindEnrollments(r)
    \/ StatsFindAchievements(r)
    \/ Throw(r)

SpecReports == InitReports /\ [][NextReports]_vars

(***************************************************************************)
(* The suggestions as a function of the values read: every request is at   *)
(* the computation, with values around each threshold.                     *)
(***************************************************************************)
LevelInputs == {0, 1, 8, 9, 10, 11}
StreakInputs == {0, 6, 7, 13, 14, 29, 30, 59, 60, 99, 100, 101}
CountInputs == {0, 4, 5, 9, 10, 19, 20, 24, 25, 49, 50, 99, 100, 101}

InitTargets ==
  /\ users = [u \in Users |-> NewUser]
  /\ initialUsers = users
  /\ enrollments = [u \in Users |-> [g \in Languages |-> NoEnrollment]]
  /\ progress = [u \in Users |-> [l \in LessonIds |-> NoRow]]
  /\ achievements = EmptyBag
  /\ now = T0
  /\ resp = [r \in Slots |-> NoResp]
  /\ started = 0
  /\ \E level \in LevelInputs, streak \in StreakInputs,
        totalLessons \in CountInputs, completedLessons \in CountInputs,
        perfectScores \in CountInputs :
       /\ perfectScores <= completedLessons
       /\ completedLessons <= totalLessons
       /\ loc = [r \in Slots |->
                   [NoLoc EXCEPT !.level = level, !.streak = streak,
                                 !.totalLessons = totalLessons,
                                 !.completedLessons = completedLessons,
                                 !.perfectScores = perfectScores]]
  /\ pc = [r \in Slots |-> "availableCompute"]
  /\ req = [r \in Slots |-> [NoReq EXCEPT !.kind = "available"]]

NextTargets == \E r \in Slots : AvailableCompute(r)

SpecTargets == InitTargets /\ [][NextTargets]_vars

(***************************************************************************)
(* Properties.                                                             *)
(***************************************************************************)
\* The total possible points of each lesson: the points of its active
\* exercises, added up by hand from the exercise table.
ActivePoints ==
  [l \in LessonIds |->
     CASE l = "l1" -> 50
       [] l = "l2" -> 20
       [] l = "l3" -> 10
       [] l = "l4" -> 0]

\* Slot r takes a step that ends its handler with a response.
Answers(r) == pc[r] # "done" /\ pc'[r] = "done"

\* C1: in every reachable state each user's stored level is
\* floor(experience / 100) + 1.
LevelMatchesExperience ==
  \A u \in Users : users[u].level = (users[u].experience \div 100) + 1

\* C1 witness: a completion has taken a user over the first level boundary.
LevelBoundaryCrossed ==
  \E u \in Users :
    /\ initialUsers[u].experience < 100
    /\ users[u].experience >= 100
    /\ users[u].level = 2

\* C2: the upsert of a lesson completion stores min(rawScore, total possible
\* points): the total when the raw score exceeds it, the raw score otherwise.
PersistedScoreIsClamped ==
  [][\A r \in Slots :
       (pc[r] = "upsertProgress" /\ pc'[r] = "findUser") =>
         LET row == progress'[req[r].userId][req[r].lessonId]
             total == ActivePoints[req[r].lessonId]
         IN /\ row.exists
            /\ row.score = (IF req[r].score > total THEN total ELSE req[r].score)]_vars

\* C2 witness: a raw score of 25 for the lesson worth 20 points is stored
\* as 20.
OverReportedScoreStored ==
  \E r \in Slots :
    /\ pc[r] = "findUser"
    /\ req[r].lessonId = "l2"
    /\ req[r].score = 25
    /\ progress[req[r].userId]["l2"].exists
    /\ progress[req[r].userId]["l2"].score = 20

\* C3: a completion's validation steps write nothing, and when the user has
\* no active enrollment in the lesson's language at the enrollment lookup,
\* the request is answered 403 with users, enrollments, progress and
\* achievements unchanged.
NotEnrolledChangesNothing ==
  [][\A r \in Slots :
       /\ (pc[r] \in {"findLesson", "findEnrollment"} /\ pc'[r] # pc[r]) => db' = db
       /\ (pc'[r] = "findLesson" /\ pc[r] # "findLesson") => db' = db
       /\ ( /\ pc[r] = "findEnrollment"
            /\ pc'[r] # pc[r]
            /\ resp'[r].status # 500
            /\ LET e == enrollments[req[r].userId][Lesson[req[r].lessonId].languageId]
               IN ~(e.exists /\ e.isActive) )
          => (Answers(r) /\ resp'[r].status = 403 /\ db' = db)]_vars

\* C3 witness: a completion was answered 403 for a user who has unenrolled
\* (an inactive enrollment row and no active one), and no progress row of
\* the user exists.
RejectedAfterUnenroll ==
  \E r \in Slots :
    /\ pc[r] = "done"
    /\ req[r].kind = "complete"
    /\ resp[r].status = 403
    /\ \E g \in Languages : enrollments[req[r].userId][g].exists
    /\ \A g \in Languages : ~enrollments[req[r].userId][g].isActive
    /\ \A l \in LessonIds : ~progress[req[r].userId][l].exists

\* C4: when the only request so far is a lesson completion that failed with
\* 500, progress, the users' rows and the achievements are as before it.
FailedCompletionLeavesNothing ==
  \A r \in Slots :
    (started = 1 /\ pc[r] = "done" /\ req[r].kind = "complete" /\ resp[r].status = 500)
      => /\ users = initialUsers
         /\ \A u \in Users, l \in LessonIds : ~progress[u][l].exists
         /\ achievements = EmptyBag

\* C5: when two completions of one user are the only requests and both were
\* answered 200, the stored experience is the initial experience plus the
\* experienceGained of both.
NoLostExperience ==
  (/\ started = 2
   /\ \A r \in Slots : pc[r] = "done" /\ req[r].kind = "complete" /\ resp[r].status = 200
   /\ req[1].userId = req[2].userId)
    => users[req[1].userId].experience =
         initialUsers[req[1].userId].experience
           + resp[1].experienceGained + resp[2].experienceGained

\* C6: no perfect_score achievement of a user and title exists twice.
OnePerfectScorePerTitle ==
  \A a \in BagToSet(achievements) :
    a.type = "perfect_score" => CopiesIn(a, achievements) <= 1

\* C7: with no negative score reported, no step lowers a user's stored
\* experience or level.
ExperienceNeverDecreases ==
  [][(\A r \in Slots : req[r].score >= 0 /\ req'[r].score >= 0) =>
       \A u \in Users :
         /\ users'[u].experience >= users[u].experience
         /\ users'[u].level >= users[u].level]_vars

\* C8: the streak check follows the reference function: d = 1 or no
\* lastLogin goes on to the increment and d > 1 to the reset; no lastLogin
\* gives 1, d = 1 gives the streak read plus 1, d > 1 gives 0, otherwise the
\* streak is returned as read; the streak returned is the streak stored.
StreakFollowsReference ==
  [][\A r \in Slots :
       LET user == users[req[r].userId]
           d == (now - user.lastLogin) \div 86400000
       IN /\ (pc[r] = "streakFindUser" /\ pc'[r] # pc[r] /\ resp'[r].status # 500) =>
               CASE user.lastLogin = NoLogin -> pc'[r] = "streakIncrement"
                 [] user.lastLogin # NoLogin /\ d = 1 -> pc'[r] = "streakIncrement"
                 [] user.lastLogin # NoLogin /\ d > 1 -> pc'[r] = "streakReset"
                 [] OTHER -> Answers(r) /\ resp'[r].streak = user.streak
          /\ (pc[r] = "streakIncrement" /\ Answers(r) /\ resp'[r].status = 200) =>
               resp'[r].streak = (IF user.lastLogin = NoLogin THEN 1 ELSE loc[r].streak + 1)
          /\ (pc[r] = "streakReset" /\ Answers(r) /\ resp'[r].status = 200) =>
               resp'[r].streak = 0
          /\ (req[r].kind = "streak" /\ Answers(r) /\ resp'[r].status = 200) =>
               resp'[r].streak = users'[req[r].userId].streak]_vars

\* C9: two streak checks of one user answered at the same time report the
\* same streak and lastLogin, and the streak stored is the one they report.
SameDayStreakIdempotent ==
  \A r, q \in Slots :
    (/\ r # q
     /\ pc[r] = "done" /\ req[r].kind = "streak" /\ resp[r].status = 200
     /\ pc[q] = "done" /\ req[q].kind = "streak" /\ resp[q].status = 200
     /\ req[r].userId = req[q].userId
     /\ resp[r].at = resp[q].at)
      => /\ resp[r].streak = resp[q].streak
         /\ resp[r].lastLogin = resp[q].lastLogin

\* C10: every progress row has a score from 0 to the total possible points
\* of its lesson.
ScoreWithinLessonTotal ==
  \A u \in Users, l \in LessonIds :
    progress[u][l].exists =>
      (0 <= progress[u][l].score /\ progress[u][l].score <= ActivePoints[l])

\* C11: a completion reads the user's experience, stores that experience
\* plus floor(finalScore / 10) and the level floor(newExperience / 100) + 1,
\* and its 200 response reports that gain and that level.
AccrualIsStoredAndReported ==
  [][\A r \in Slots :
       LET u == req[r].userId
           gained == loc[r].finalScore \div 10
           newExperience == loc[r].experience + gained
       IN /\ (pc[r] = "findUser" /\ pc'[r] = "updateUser") =>
               loc'[r].experience = users[u].experience
          /\ (pc[r] = "updateUser" /\ pc'[r] # pc[r] /\ resp'[r].status # 500) =>
               /\ users'[u].experience = newExperience
               /\ users'[u].level = (newExperience \div 100) + 1
          /\ (req[r].kind = "complete" /\ Answers(r) /\ resp'[r].status = 200) =>
               /\ resp'[r].score = loc[r].finalScore
               /\ resp'[r].experienceGained = gained
               /\ resp'[r].newLevel = (newExperience \div 100) + 1]_vars

\* C11 witness: from experience 95 a completion scoring 50 of 50 reported a
\* gain of 5 and level 2, and experience 100 and level 2 are stored.
FiveGainedReachesLevelTwo ==
  \E r \in Slots :
    /\ pc[r] = "done" /\ req[r].kind = "complete" /\ resp[r].status = 200
    /\ initialUsers[req[r].userId].experience = 95
    /\ resp[r].score = 50
    /\ resp[r].experienceGained = 5
    /\ resp[r].newLevel = 2
    /\ users[req[r].userId].experience = 100
    /\ users[req[r].userId].level = 2

\* The level_up achievements of user u.
LevelUps(u) ==
  { a \in BagToSet(achievements) : a.userId = u /\ a.type = "level_up" }

\* How many level_up achievements titled for level n user u has in bag.
LevelUpCountIn(bag, u, n) ==
  LET title == CASE n = 1 -> "Level 1!"
                 [] n = 2 -> "Level 2!"
                 [] OTHER -> "Level " \o ToString(n) \o "!"
      a == [userId |-> u, type |-> "level_up", title |-> title]
  IN IF a \in BagToSet(bag) THEN CopiesIn(a, bag) ELSE 0

\* How many level_up achievements titled for level n user u has.
LevelUpCount(u, n) == LevelUpCountIn(achievements, u, n)

\* C12: a completion goes on to insert a level_up achievement exactly when
\* the level it computed exceeds the level it read; the insert adds one
\* achievement titled "Level <newLevel>!"; no other step adds, changes or
\* removes a level_up achievement.
LevelUpIffLevelRaised ==
  [][\A r \in Slots :
       LET u == req[r].userId
           newLevel == ((loc[r].experience + loc[r].finalScore \div 10) \div 100) + 1
       IN /\ (pc[r] = "updateUser" /\ pc'[r] # pc[r] /\ resp'[r].status # 500) =>
               ((pc'[r] = "createLevelUp") <=> (newLevel > loc[r].level))
          /\ (pc[r] = "createLevelUp" /\ pc'[r] # pc[r] /\ resp'[r].status # 500) =>
               /\ newLevel > loc[r].level
               /\ LevelUpCountIn(achievements', u, newLevel) = LevelUpCount(u, newLevel) + 1
               /\ BagCardinality(achievements') = BagCardinality(achievements) + 1
          /\ (pc[r] # "createLevelUp" /\ pc'[r] # pc[r]) =>
               \A v \in Users :
                 /\ LevelUps(v)' = LevelUps(v)
                 /\ \A a \in LevelUps(v) : CopiesIn(a, achievements') = CopiesIn(a, achievements)]_vars

\* C12 witness: a completion raised u1 from level 1 to level 2 and the
\* achievement "Level 2!" exists.
LevelTwoAchievementCreated ==
  /\ initialUsers["u1"].level = 1
  /\ users["u1"].level = 2
  /\ LevelUpCount("u1", 2) = 1
  /\ \E r \in Slots : pc[r] = "done" /\ req[r].kind = "complete" /\ resp[r].status = 200

\* C13: no achievement of a user, type and title exists twice.
OneAchievementPerUserTypeTitle ==
  \A a \in BagToSet(achievements) : CopiesIn(a, achievements) = 1

\* C14: when the lesson lookup of a completion finds no active lesson of the
\* requested id (the id is of no lesson, or of an inactive one), the request
\* is answered 404 "Lesson not found" and users, enrollments, progress and
\* achievements are unchanged, whatever the user's enrollments.
MissingLessonChangesNothing ==
  [][\A r \in Slots :
       ( /\ pc[r] = "findLesson"
         /\ pc'[r] # pc[r]
         /\ resp'[r].status # 500
         /\ \/ req[r].lessonId \notin LessonIds
            \/ ~Lesson[req[r].lessonId].isActive )
          => /\ Answers(r)
             /\ resp'[r].status = 404
             /\ resp'[r].error = "Lesson not found"
             /\ db' = db]_vars

\* C14 witness: two completions were answered 404 "Lesson not found", one
\* of a user enrolled in Spanish and one of a user with no Spanish
\* enrollment (the lessons answered so are the inactive Spanish lesson and
\* the id of no lesson); no progress row or achievement exists and the
\* users' rows are as at the start.
InactiveAndAbsentLessonRejected ==
  /\ \A r \in Slots : pc[r] = "done" /\ req[r].kind = "complete"
                        /\ resp[r].status = 404 /\ resp[r].error = "Lesson not found"
  /\ enrollments[req[1].userId]["es"].isActive
  /\ ~enrollments[req[2].userId]["es"].exists
  /\ \A u \in Users, l \in LessonIds : ~progress[u][l].exists
  /\ achievements = EmptyBag
  /\ users = initialUsers

\* C15: in every state a reader can see, a user's level is above the level
\* at the start exactly when a level_up achievement of the user exists, and
\* then one titled for the stored level exists.
LevelAndLevelUpAppearTogether ==
  \A u \in Users :
    /\ (users[u].level > initialUsers[u].level) <=> (LevelUps(u) # {})
    /\ (users[u].level > initialUsers[u].level) => LevelUpCount(u, users[u].level) >= 1

\* Row is the progress row a completion of lesson l with body b writes.
RowOf(l, b, row) ==
  /\ row.exists
  /\ row.completed
  /\ row.score = (IF b.score > ActivePoints[l] THEN ActivePoints[l] ELSE b.score)
  /\ row.timeSpent = b.timeSpent
  /\ row.enrollmentId = Lesson[l].languageId

\* C16 (state): a user and a lesson have one progress row at most, and the
\* row holds the score and the timeSpent of one single request body, never
\* the score of one and the timeSpent of another.
ProgressRowOfOneRequest ==
  \A u \in Users, l \in LessonIds :
    progress[u][l].exists => \E b \in Bodies : RowOf(l, b, progress[u][l])

\* C16: the upsert of a completion leaves the (user, lesson) row with this
\* request's score, timeSpent and the time of the write, whatever the row
\* held before, and touches no other row; every row is the row of one
\* request.
LastCompletionOverwritesRow ==
  [][\A r \in Slots :
       (pc[r] = "upsertProgress" /\ pc'[r] = "findUser") =>
         LET u == req[r].userId
             l == req[r].lessonId
             b == [score |-> req[r].score, timeSpent |-> req[r].timeSpent]
         IN /\ RowOf(l, b, progress'[u][l])
            /\ progress'[u][l].completedAt = now
            /\ \A v \in Users, k \in LessonIds :
                 << v, k >> # << u, l >> => progress'[v][k] = progress[v][k]
            /\ ProgressRowOfOneRequest']_vars

\* C16 witness: two completions of l1 by one user are in flight together:
\* the one reporting 60 points in 30 s has written its row and gone on, the
\* other, with 25 points in 20 s, wrote last, and the row holds 25 and 20.
SecondCompletionOverwroteFirst ==
  \E r, q \in Slots :
    /\ r # q
    /\ req[r].userId = req[q].userId
    /\ req[r].lessonId = "l1" /\ req[q].lessonId = "l1"
    /\ pc[q] = "updateUser" /\ req[q].score = 60 /\ loc[q].finalScore = 50
    /\ pc[r] = "findUser" /\ req[r].score = 25
    /\ progress[req[r].userId]["l1"].score = 25
    /\ progress[req[r].userId]["l1"].timeSpent = 20

\* C17: enrollments are kept one row per user and language and no row is
\* ever removed; the reactivating update of an enroll request sets the
\* existing row's isActive to true and its startedAt to the time of the
\* request and changes nothing else; the update of an unenroll request sets
\* isActive to false and changes nothing else; a first enroll creates the
\* row only where none exists.
ReenrollReactivatesRow ==
  [][\A r \in Slots :
       LET u == req[r].userId
           g == req[r].languageId
           others == \A v \in Users, h \in Languages :
                       << v, h >> # << u, g >> => enrollments'[v][h] = enrollments[v][h]
       IN /\ \A v \in Users, h \in Languages :
               enrollments[v][h].exists => enrollments'[v][h].exists
          /\ (pc[r] = "enrollFindExisting" /\ pc'[r] = "enrollReactivate") =>
               (enrollments[u][g].exists /\ ~enrollments[u][g].isActive)
          /\ (pc[r] = "enrollReactivate" /\ Answers(r) /\ resp'[r].status # 500) =>
               /\ enrollments'[u][g] =
                    [enrollments[u][g] EXCEPT !.isActive = TRUE, !.startedAt = now]
               /\ others
          /\ (pc[r] = "unenrollUpdate" /\ Answers(r) /\ resp'[r].status # 500) =>
               /\ enrollments'[u][g] = [enrollments[u][g] EXCEPT !.isActive = FALSE]
               /\ others
          /\ (pc[r] = "enrollCreate" /\ Answers(r) /\ resp'[r].status = 201) =>
               /\ ~enrollments[u][g].exists
               /\ enrollments'[u][g].exists /\ enrollments'[u][g].isActive
               /\ others]_vars

\* C17 witness: a user enrolled at time 0 has unenrolled and enrolled again:
\* the enroll request was answered 200 and the row is active with the
\* startedAt of the re-enrollment and its level.
ReenrolledAfterUnenroll ==
  \E r, q \in Slots, u \in Users, g \in Languages :
    /\ r # q
    /\ pc[q] = "done" /\ req[q].kind = "unenroll" /\ req[q].userId = u
    /\ resp[q].status = 200
    /\ pc[r] = "done" /\ req[r].kind = "enroll" /\ req[r].userId = u
    /\ resp[r].status = 200
    /\ enrollments[u][g] =
         [exists |-> TRUE, isActive |-> TRUE, level |-> 1, startedAt |-> T0]

\* C18: when the lookup of an enroll request finds an active enrollment of
\* the user in the language, the request is answered 400 "Already enrolled
\* in this language" and the row, its startedAt and level included, and
\* every other row are unchanged.
ActiveEnrollmentIsConflict ==
  [][\A r \in Slots :
       ( /\ pc[r] = "enrollFindExisting"
         /\ pc'[r] # pc[r]
         /\ resp'[r].status # 500
         /\ enrollments[req[r].userId][req[r].languageId].exists
         /\ enrollments[req[r].userId][req[r].languageId].isActive )
          => /\ Answers(r)
             /\ resp'[r].status = 400
             /\ resp'[r].error = "Already enrolled in this language"
             /\ db' = db]_vars

\* C18 witness: the only request, an enroll of a user in a language the
\* user is actively enrolled in, was answered "Already enrolled in this
\* language", and the enrollments are those of the start, startedAt 0 and
\* level 1.
DuplicateEnrollRejected ==
  \E r \in Slots :
    /\ started = 1
    /\ pc[r] = "done" /\ req[r].kind = "enroll"
    /\ resp[r].status = 400
    /\ resp[r].error = "Already enrolled in this language"
    /\ enrollments[req[r].userId]["es"] =
         [exists |-> TRUE, isActive |-> TRUE, level |-> 1, startedAt |-> 0]
    /\ ~enrollments[req[r].userId]["fr"].exists

\* C19: the middleware answers a request with no token 401, with an expired
\* token 401, with a malformed token or one of a wrong signature 403, and
\* with a good token that has no unexpired session row 401 "Session
\* expired"; in each case the request ends there, before the route handler,
\* and nothing is written.
FailingTokensAreClassified ==
  [][\A r \in Slots :
       LET t == Token[req[r].token]
           rejected(status) == Answers(r) /\ resp'[r].status = status /\ db' = db
       IN /\ (pc[r] = "authenticateToken" /\ pc'[r] # pc[r]) =>
               /\ (t.form = "missing") => rejected(401)
               /\ (t.form = "signed" /\ now >= t.exp) => rejected(401)
               /\ (t.form \in {"malformed", "forged"}) => rejected(403)
          /\ ( /\ pc[r] = "authFindSession"
               /\ pc'[r] # pc[r]
               /\ resp'[r].status # 500
               /\ ~\E s \in Sessions :
                      s.token = req[r].token /\ s.userId = t.userId /\ s.expiresAt > now )
               => (rejected(401) /\ resp'[r].error = "Session expired")]_vars

\* C20: a step of a streak check that changes a user's stored streak sets
\* that user's lastLogin to the time of the check.
StreakChangeSetsLastLogin ==
  [][\A u \in Users :
       users'[u].streak # users[u].streak => users'[u].lastLogin = now]_vars

\* C21: in every reachable state each user has experience >= 0, level >= 1
\* and streak >= 0.
UserCountersInRange ==
  \A u \in Users :
    /\ users[u].experience >= 0
    /\ users[u].level >= 1
    /\ users[u].streak >= 0

\* C22: a completion inserts a perfect_score achievement only when its final
\* score equals the lesson's total possible points and that total is above
\* 0; no perfect_score achievement is inserted for a lesson with no active
\* exercise.
PerfectScoreNeedsPositiveTotal ==
  [][\A r \in Slots :
       (pc[r] = "createPerfect" /\ achievements' # achievements) =>
         /\ loc[r].finalScore = ActivePoints[req[r].lessonId]
         /\ ActivePoints[req[r].lessonId] > 0]_vars

\* The steps of a completion and the steps each may be followed by.
CompletionOrder ==
  { << "findLesson", "findEnrollment" >>,
    << "findEnrollment", "findExercises" >>,
    << "findExercises", "upsertProgress" >>,
    << "upsertProgress", "findUser" >>,
    << "findUser", "updateUser" >>,
    << "updateUser", "createLevelUp" >>,
    << "updateUser", "findPerfect" >>,
    << "createLevelUp", "findPerfect" >>,
    << "findPerfect", "createPerfect" >> }

\* C23: a completion takes its steps in order: the lesson and enrollment
\* lookups come first and write nothing, the progress upsert comes before
\* the user update, the level-up insert before the perfect-score lookup and
\* insert, and the 200 response is sent only when no achievement write of
\* the request is still to come.
CompletionStepsInOrder ==
  [][\A r \in Slots :
       (req[r].kind = "complete" /\ pc[r] # "done" /\ pc'[r] # pc[r]) =>
         /\ Answers(r) \/ << pc[r], pc'[r] >> \in CompletionOrder
         /\ progress' # progress => pc[r] = "upsertProgress"
         /\ users' # users => pc[r] = "updateUser"
         /\ achievements' # achievements => pc[r] \in {"createLevelUp", "createPerfect"}
         /\ enrollments' = enrollments
         /\ pc'[r] = "findExercises" =>
              LET e == enrollments[req[r].userId][Lesson[req[r].lessonId].languageId]
              IN Lesson[req[r].lessonId].isActive /\ e.exists /\ e.isActive
         /\ (Answers(r) /\ resp'[r].status = 200) =>
              /\ pc[r] \in {"updateUser", "createLevelUp", "findPerfect", "createPerfect"}
              /\ pc[r] = "updateUser" => ~(loc[r].newLevel > loc[r].level)
              /\ pc[r] \in {"updateUser", "createLevelUp"} =>
                   loc[r].finalScore # ActivePoints[req[r].lessonId]
              /\ pc[r] = "findPerfect" =>
                   BagIn([userId |-> req[r].userId, type |-> "perfect_score",
                          title |-> "Perfect Score in " \o Lesson[req[r].lessonId].title],
                         achievements)]_vars

\* C23 witness: the only request, a completion by u1, was answered 200 after
\* it wrote the progress row, the user row, "Level 2!" and the perfect_score
\* achievement.
CompletionWroteEverything ==
  \E r \in Slots :
    /\ started = 1
    /\ pc[r] = "done" /\ req[r].kind = "complete" /\ resp[r].status = 200
    /\ progress["u1"]["l1"].exists
    /\ users["u1"].experience = 100 /\ users["u1"].level = 2
    /\ LevelUpCount("u1", 2) = 1
    /\ BagIn([userId |-> "u1", type |-> "perfect_score",
              title |-> "Perfect Score in Basic Greetings"], achievements)

\* C24: the perfect-score lookup of a completion goes on to the insert
\* exactly when the user has no perfect_score achievement titled "Perfect
\* Score in <title of the lesson>", whichever lesson an existing one was
\* earned in, and the insert adds one achievement of that title.
PerfectDedupIsByTitle ==
  [][\A r \in Slots :
       LET a == [userId |-> req[r].userId, type |-> "perfect_score",
                 title |-> "Perfect Score in " \o Lesson[req[r].lessonId].title]
       IN /\ (pc[r] = "findPerfect" /\ pc'[r] # pc[r] /\ resp'[r].status # 500) =>
               /\ (pc'[r] = "createPerfect") <=> ~BagIn(a, achievements)
               /\ BagIn(a, achievements) => (Answers(r) /\ achievements' = achievements)
          /\ (pc[r] = "createPerfect" /\ pc'[r] # pc[r] /\ resp'[r].status # 500) =>
               achievements' = achievements (+) SetToBag({a})]_vars

\* C24 witness: u1 completed the Spanish and the French lesson titled "Basic
\* Greetings" with full marks, both were answered 200, and u1 has one
\* achievement "Perfect Score in Basic Greetings".
SameTitleSecondLessonNoAchievement ==
  LET a == [userId |-> "u1", type |-> "perfect_score",
            title |-> "Perfect Score in Basic Greetings"]
  IN /\ \A r \in Slots : pc[r] = "done" /\ req[r].kind = "complete" /\ resp[r].status = 200
     /\ progress["u1"]["l1"].exists /\ progress["u1"]["l1"].score = 50
     /\ progress["u1"]["l2"].exists /\ progress["u1"]["l2"].score = 20
     /\ BagIn(a, achievements) /\ CopiesIn(a, achievements) = 1

\* The thresholds of S above v.
Above(S, v) == { t \in S : t > v }

\* The smallest member of the non-empty set of numbers S.
Least(S) == CHOOSE t \in S : \A other \in S : t <= other

\* The suggestions of one type in a list of suggestions.
OfType(list, type) == { i \in DOMAIN list : list[i].type = type }

\* List has a suggestion of the type exactly when wanted, one at most, and
\* it carries the value as progress and the smallest threshold above it.
SuggestsLeastAbove(list, type, wanted, value, S) ==
  /\ (OfType(list, type) # {}) <=> (wanted /\ Above(S, value) # {})
  /\ Cardinality(OfType(list, type)) <= 1
  /\ \A i \in OfType(list, type) :
       list[i].progress = value /\ list[i].target = Least(Above(S, value))

\* C25: the listing sent holds a level suggestion with target level + 1
\* exactly when level < 10; a streak suggestion with the smallest of 7, 14,
\* 30, 60, 100 above the streak, none if there is none; a lesson suggestion
\* with the smallest of 10, 25, 50, 100 above the completed count, none if no
\* progress row was read or there is none; a perfect-score suggestion with
\* the smallest of 5, 10, 20, 50 above the perfect-score count.
TargetsAreNextThresholds ==
  [][\A r \in Slots :
       (pc[r] = "availableCompute" /\ Answers(r) /\ resp'[r].status = 200) =>
         LET list == resp'[r].availableAchievements
         IN /\ SuggestsLeastAbove(list, "level_up", loc[r].level < 10,
                                  loc[r].level, {loc[r].level + 1})
            /\ SuggestsLeastAbove(list, "streak", TRUE,
                                  loc[r].streak, {7, 14, 30, 60, 100})
            /\ SuggestsLeastAbove(list, "lesson_complete", loc[r].totalLessons > 0,
                                  loc[r].completedLessons, {10, 25, 50, 100})
            /\ SuggestsLeastAbove(list, "perfect_score", TRUE,
                                  loc[r].perfectScores, {5, 10, 20, 50})
            /\ \A i \in DOMAIN list :
                 list[i].type \in {"level_up", "streak", "lesson_complete", "perfect_score"}]_vars

\* C25 witness: a listing was sent for level 10, a streak of 7, 25 completed
\* lessons and 5 perfect scores: no level suggestion, and the targets are
\* 14, 50 and 10, each strictly above a value that is itself a threshold.
ThresholdValuesGetNextTarget ==
  \E r \in Slots :
    /\ pc[r] = "done" /\ req[r].kind = "available" /\ resp[r].status = 200
    /\ resp[r].availableAchievements =
         << [type |-> "streak", progress |-> 7, target |-> 14],
            [type |-> "lesson_complete", progress |-> 25, target |-> 50],
            [type |-> "perfect_score", progress |-> 5, target |-> 10] >>

\* C26: every suggestion of every listing sent has 0 <= progress < target.
SuggestionsBelowTarget ==
  \A r \in Slots :
    \A i \in DOMAIN resp[r].availableAchievements :
      LET a == resp[r].availableAchievements[i]
      IN 0 <= a.progress /\ a.progress < a.target

\* C27: the perfect-score count the listing reads is the number of the
\* user's completed progress rows, in active enrollments, whose score is the
\* total possible points of the lesson.
PerfectCounterCountsFullMarks ==
  [][\A r \in Slots :
       (pc[r] = "availableFindEnrollments" /\ pc'[r] = "availableCompute") =>
         LET u == req[r].userId
             fullMarks ==
               { l \in LessonIds :
                   /\ progress[u][l].exists
                   /\ progress[u][l].completed
                   /\ enrollments[u][progress[u][l].enrollmentId].isActive
                   /\ progress[u][l].score = ActivePoints[l] }
         IN loc'[r].perfectScores = Cardinality(fullMarks)]_vars

\* Every progress row is completed, with the time of its completion.
AllRowsCompleted ==
  \A u \in Users, l \in LessonIds :
    progress[u][l].exists => (progress[u][l].completed /\ progress[u][l].completedAt > 0)

\* A reported enrollment or total has as many completed lessons as lessons.
FullyCompleted(e) == e.totalLessons = e.completedLessons

\* C28: every progress row is completed with its completedAt set, and each
\* enrollment reported by the enrollments and overview routes, and the
\* total reported by the stats route, has totalLessons = completedLessons
\* and a completion rate of 0 (no rows) or 100.
ReportedRatesAreZeroOrFull ==
  /\ AllRowsCompleted
  /\ \A r \in Slots :
       /\ \A e \in resp[r].enrollments :
            /\ FullyCompleted(e)
            /\ e.progressPercentage = (IF e.totalLessons = 0 THEN 0 ELSE 100)
       /\ \A e \in resp[r].overview :
            /\ FullyCompleted(e)
            /\ e.completionRate.num =
                 (IF e.totalLessons = 0 THEN 0 ELSE 100 * e.completionRate.den)
       /\ FullyCompleted(resp[r].stats)
       /\ resp[r].stats.completionRate.num =
            (IF resp[r].stats.totalLessons = 0 THEN 0
                                                ELSE 100 * resp[r].stats.completionRate.den)

\* C28 witness: u1 has completed two Spanish lessons, one of them with a
\* negative score, and the overview answered reports 2 lessons, 2 completed
\* and the rate 200 / 2.
TwoLessonsFullRate ==
  \E r \in Slots :
    /\ pc[r] = "done" /\ req[r].kind = "overview" /\ resp[r].status = 200
    /\ progress["u1"]["l4"].exists /\ progress["u1"]["l4"].score = -1010
    /\ resp[r].overview =
         { [languageId |-> "es", totalLessons |-> 2, completedLessons |-> 2,
            completionRate |-> [num |-> 200, den |-> 2]] }

\* The steps of the enroll and unenroll routes.
EnrollmentPcs ==
  {"enrollFindLanguage", "enrollFindExisting", "enrollReactivate", "enrollCreate",
   "unenrollFind", "unenrollUpdate"}

\* C29: a completion whose enrollment lookup finds the user's enrollment in
\* the lesson's language inactive is answered 403 and writes nothing, and
\* one that finds it active, reactivated or not, goes on; no step of an
\* enroll or unenroll request touches a progress row; and the upsert of a
\* completion writes an existing row in place, its enrollment kept.
UnenrolledRejectedRowsKept ==
  [][\A r \in Slots :
       LET u == req[r].userId
           l == req[r].lessonId
       IN /\ (pc[r] = "findEnrollment" /\ pc'[r] # pc[r] /\ resp'[r].status # 500) =>
               LET e == enrollments[u][Lesson[l].languageId]
               IN IF e.exists /\ e.isActive
                    THEN pc'[r] = "findExercises"
                    ELSE Answers(r) /\ resp'[r].status = 403 /\ db' = db
          /\ (pc[r] \in EnrollmentPcs /\ pc'[r] # pc[r]) =>
               /\ progress' = progress
               /\ users' = users
               /\ achievements' = achievements
          /\ (pc[r] = "upsertProgress" /\ pc'[r] = "findUser" /\ progress[u][l].exists) =>
               /\ progress'[u][l].exists
               /\ progress'[u][l].enrollmentId = progress[u][l].enrollmentId
               /\ progress'[u][l].score = loc[r].finalScore
               /\ progress'[u][l].timeSpent = req[r].timeSpent
               /\ progress'[u][l].completedAt = now]_vars

\* C29 witness: u1, who had completed l1 with 25 points and unenrolled from
\* Spanish, enrolled again (answered 200, the row reactivated) and then
\* completed l1 with full marks: the same row now holds 50 points and 30 s.
CompletedAgainAfterReenroll ==
  \E r, q \in Slots :
    /\ r # q
    /\ initialUsers["u1"].experience = 2
    /\ pc[q] = "done" /\ req[q].kind = "enroll" /\ resp[q].status = 200
    /\ pc[r] = "done" /\ req[r].kind = "complete" /\ resp[r].status = 200
    /\ resp[r].score = 50
    /\ enrollments["u1"]["es"] =
         [exists |-> TRUE, isActive |-> TRUE, level |-> 1, startedAt |-> T0]
    /\ progress["u1"]["l1"] =
         [exists |-> TRUE, score |-> 50, timeSpent |-> 30, completed |-> TRUE,
          completedAt |-> T0, enrollmentId |-> "es"]

\* The steps of the guarded streak route.
StreakPcs == {"streakFindUser", "streakReset", "streakIncrement"}

\* A session row of the token and its user that expires after the time at.
LiveSession(t, at) ==
  \E s \in Sessions : s.token = t /\ s.userId = Token[t].userId /\ s.expiresAt > at

\* C30 as stated: every step of a guarded handler is taken while a session
\* row of the request's token and user has expiresAt later than now.
HandlerRunsOnlyWhileSessionLive ==
  [][\A r \in Slots :
       (pc[r] \in StreakPcs /\ pc'[r] # pc[r]) => LiveSession(req[r].token, now)]_vars

\* C30 amended: a request passes the session lookup only when a session row
\* of its token and the token's user has expiresAt later than the time of
\* the lookup, and is answered 401 there otherwise, so no request whose
\* lookup comes after the row expired or was removed reaches the handler;
\* the handler is entered only from the user lookup that follows, runs for
\* the token's user and changes no other user's row; the middleware writes
\* nothing.
HandlerRunsOnlyAfterLiveSessionLookup ==
  [][\A r \in Slots :
       LET t == req[r].token
       IN /\ (pc[r] = "authFindSession" /\ pc'[r] # pc[r] /\ resp'[r].status # 500) =>
               IF LiveSession(t, now)
                 THEN pc'[r] = "authFindUser"
                 ELSE Answers(r) /\ resp'[r].status = 401
          /\ (pc'[r] = "authFindUser" /\ pc[r] # pc'[r]) => pc[r] = "authFindSession"
          /\ (pc'[r] = "streakFindUser" /\ pc[r] # pc'[r]) =>
               /\ pc[r] = "authFindUser"
               /\ Token[t].userId \in Users
               /\ req'[r].userId = Token[t].userId
          /\ (pc[r] \in StreakPcs /\ pc'[r] # pc[r]) =>
               /\ req[r].userId = Token[t].userId
               /\ \A v \in Users \ {req[r].userId} : users'[v] = users[v]
          /\ (pc[r] \in AuthPcs /\ pc'[r] # pc[r]) => db' = db]_vars

\* C30 witness: the session row of "shortSession" has expired; a request
\* that passed the session lookup before is in the handler for u2, and
\* another request was answered 401 "Session expired".
ExpiredSessionOnlyInFlight ==
  \E r, q \in Slots :
    /\ now >= T0 + HALF_DAY
    /\ pc[r] = "streakIncrement" /\ req[r].token = "shortSession" /\ req[r].userId = "u2"
    /\ pc[q] = "done" /\ resp[q].status = 401 /\ resp[q].error = "Session expired"
    /\ resp[q].at >= T0 + HALF_DAY
====
